---- MODULE Spec2Model ----
(***************************************************************************)
(* Model of secret_message.py: fetch a published document, parse the first *)
(* table into (x, y, character) entries, place them on a grid and print    *)
(* the grid with its rows reversed.                                        *)
(*                                                                         *)
(* Text is a sequence of one-character strings, so that strip(), int()     *)
(* and ''.join() are computed rather than assumed.  A printed line is a    *)
(* record: [msg |-> ...] for a fixed message, [msg |-> ..., cause |-> ...] *)
(* for the fetch error f-string, [row |-> text] for a grid row.            *)
(***************************************************************************)
EXTENDS Integers, Sequences, FiniteSets, TLC

VARIABLES pc, response, html, characters, grid, out, exc, calls

vars == <<pc, response, html, characters, grid, out, exc, calls>>

(* ------------------------------ bounds --------------------------------- *)
\* most <tr> rows in a table (the first one is the header row)
MaxRows == 3
\* most entries handed to arrange_chars_into_grid in SpecGrid
MaxEntries == 3
\* largest coordinate of an entry in SpecGrid (the smallest is -1)
MaxCoord == 1

(* ------------------------- Python text helpers ------------------------- *)
Txt0 == <<"0">>
TxtPad1 == <<" ", "1", " ">>
TxtNeg1 == <<"-", "1">>
TxtA == <<"a">>
TxtPadB == <<" ", "b", " ">>
TxtSpace == <<" ">>
TxtX == <<"x">>

Whitespace == {" "}
Digits == {"0", "1"}

DigitVal(d) == IF d = "1" THEN 1 ELSE 0

\* str.lstrip() / str.rstrip() / str.strip()
RECURSIVE LStrip(_)
LStrip(t) ==
    IF t # <<>> /\ Head(t) \in Whitespace THEN LStrip(Tail(t)) ELSE t

RECURSIVE RStrip(_)
RStrip(t) ==
    IF t # <<>> /\ t[Len(t)] \in Whitespace
    THEN RStrip(SubSeq(t, 1, Len(t) - 1))
    ELSE t

Strip(t) == RStrip(LStrip(t))

\* int(str): optional sign, then one or more decimal digits; anything else
\* is a ValueError
Unsigned(t) ==
    IF t # <<>> /\ Head(t) \in {"-", "+"} THEN Tail(t) ELSE t

IntOk(t) ==
    LET u == Unsigned(Strip(t))
    IN  u # <<>> /\ \A i \in 1..Len(u) : u[i] \in Digits

RECURSIVE Magnitude(_)
Magnitude(u) ==
    IF u = <<>> THEN 0
    ELSE 10 * Magnitude(SubSeq(u, 1, Len(u) - 1)) + DigitVal(u[Len(u)])

IntVal(t) ==
    LET s == Strip(t)
    IN  IF s # <<>> /\ Head(s) = "-"
        THEN 0 - Magnitude(Unsigned(s))
        ELSE Magnitude(Unsigned(s))

\* ''.join(row)
RECURSIVE Join(_)
Join(row) ==
    IF row = <<>> THEN <<>> ELSE Head(row) \o Join(Tail(row))

\* reversed(seq)
ReverseKept(s) == s

Reverse(s) == [k \in 1..Len(s) |-> s[Len(s) - k + 1]]

\* max(iterable) of a non-empty collection
Max(S) == CHOOSE m \in S : \A n \in S : n <= m

\* range(n) has n elements, none when n <= 0
RangeLen(n) == IF n > 0 THEN n ELSE 0

\* list index i of a list of length n as a 1-based position; 0 is IndexError
PyIndex(i, n) ==
    IF 0 <= i /\ i < n THEN i + 1
    ELSE IF 0 - n <= i /\ i < 0 THEN n + i + 1
    ELSE 0

(* ------------------------------ messages ------------------------------- *)
ErrorPrefix == "Error fetching the document: "
NoTableMsg == [msg |-> "No table found in the document."]
NoCharactersMsg == [msg |-> "No characters found in the document."]

None == [none |-> TRUE]

(* ------------------------------- inputs -------------------------------- *)
\* rows of a table: too few cells, three cells, more than three cells
ShortRows == {<<>>, <<Txt0, TxtA>>}

FullRows ==
    { <<Txt0, TxtA, Txt0>>,               \* (0, 0, 'a')
      <<TxtPad1, TxtPadB, TxtPad1>>,      \* padded cells: (1, 1, 'b')
      <<TxtNeg1, TxtA, Txt0>>,            \* negative x
      <<Txt0, <<"a", "b">>, TxtNeg1>>,    \* negative y, two glyphs
      <<TxtX, TxtA, Txt0>>,               \* x is not a number
      <<Txt0, TxtA, TxtX>>,               \* y is not a number
      <<Txt0, TxtSpace, Txt0>>,           \* blank character
      <<TxtX, TxtSpace, TxtX>> }

LongRows == {<<Txt0, TxtPadB, Txt0, TxtX>>}

Rows == ShortRows \cup FullRows \cup LongRows

RECURSIVE SeqsUpTo(_, _)
SeqsUpTo(S, n) ==
    IF n = 0 THEN {<<>>}
    ELSE LET shorter == SeqsUpTo(S, n - 1)
         IN  shorter \cup {Append(s, e) : s \in {t \in shorter : Len(t) = n - 1},
                                         e \in S}

Tables == SeqsUpTo(Rows, MaxRows)

\* a second table, which soup.find('table') never returns
DecoyTable == <<<<TxtX, TxtX, TxtX>>, <<TxtPad1, TxtA, TxtPad1>>>>

\* response.text: the empty string, or markup with its <table> elements
EmptyBody == [empty |-> TRUE, tables |-> <<>>]
Markups ==
    {EmptyBody}
    \cup {[empty |-> FALSE, tables |-> <<>>]}
    \cup {[empty |-> FALSE, tables |-> <<t>>] : t \in Tables}
    \cup {[empty |-> FALSE, tables |-> <<t, DecoyTable>>] :
              t \in {<<>>, <<<<TxtX, TxtX, TxtX>>, <<TxtX, TxtA, Txt0>>>>}}

\* what requests.get(url) does: raise a RequestException, or return a
\* response with a status code and a body
NetworkErrors == {"ConnectionError", "Timeout"}
Responses ==
    {[raised |-> e] : e \in NetworkErrors}
    \cup {[status |-> 200, text |-> m] : m \in Markups}
    \cup {[status |-> s, text |-> m] :
              s \in {404, 500}, m \in {EmptyBody, [empty |-> FALSE, tables |-> <<DecoyTable>>]}}

Raised(r) == "raised" \in DOMAIN r

(* ------------------- fetch_and_parse_doc (lines 10-23) ------------------ *)
\* response.raise_for_status() raises HTTPError for a 4xx or 5xx status
StatusCause(s) ==
    IF 400 <= s /\ s < 500 THEN "Client Error"
    ELSE IF 500 <= s /\ s < 600 THEN "Server Error"
    ELSE "ok"

\* the RequestException the try block ends with, "ok" when it ends normally
FetchErrorIgnoringStatus(resp) ==
    IF Raised(resp) THEN resp.raised ELSE "ok"

FetchError(resp) ==
    IF Raised(resp) THEN resp.raised ELSE StatusCause(resp.status)

\* the value returned and the lines printed
FetchAndParseDocResult(resp) ==
    IF FetchError(resp) = "ok"
    THEN [ret |-> resp.text, printed |-> <<>>]
    ELSE [ret |-> None,
          printed |-> <<[msg |-> ErrorPrefix, cause |-> FetchError(resp)]>>]

\* truth value of html in "if not html": None and '' are false
Truthy(h) == IF h = None THEN FALSE ELSE ~h.empty

(* ----------------- parse_table_characters (lines 26-53) ----------------- *)
\* soup.find('table'): the first table, None when there is none
FindTable(markup) ==
    IF markup.tables = <<>> THEN None ELSE [rows |-> Head(markup.tables)]

\* rows[1:]
AllRows(rows) == rows

DataRows(rows) == IF rows = <<>> THEN <<>> ELSE Tail(rows)

\* len(cells) >= 3
EnoughCells(cells) == Len(cells) >= 3

\* the body of the for loop: the entries one row appends
ParseRow(cells) ==
    IF ~EnoughCells(cells) THEN <<>>
    ELSE IF ~IntOk(cells[1]) THEN <<>>
    ELSE IF ~IntOk(cells[3]) THEN <<>>
    ELSE IF Strip(cells[2]) = <<>> THEN <<>>
    ELSE <<<<IntVal(cells[1]), IntVal(cells[3]), Strip(cells[2])>>>>

RECURSIVE ParseRows(_)
ParseRows(rows) ==
    IF rows = <<>> THEN <<>>
    ELSE ParseRow(Head(rows)) \o ParseRows(Tail(rows))

ParseTableCharactersResult(markup) ==
    LET table == FindTable(markup)
    IN  IF table = None
        THEN [ret |-> <<>>, printed |-> <<NoTableMsg>>]
        ELSE [ret |-> ParseRows(DataRows(table.rows)), printed |-> <<>>]

(* ---------------- arrange_chars_into_grid (lines 56-75) ----------------- *)
Blank == <<" ">>

MaxX(chars) == Max({chars[i][1] : i \in 1..Len(chars)})
MaxY(chars) == Max({chars[i][2] : i \in 1..Len(chars)})

\* [[' ' for _ in range(max_x + 1)] for _ in range(max_y + 1)]
TransposedBlankGrid(max_x, max_y) ==
    [r \in 1..RangeLen(max_x + 1) |-> [c \in 1..RangeLen(max_y + 1) |-> Blank]]

BlankGrid(max_x, max_y) ==
    [r \in 1..RangeLen(max_y + 1) |-> [c \in 1..RangeLen(max_x + 1) |-> Blank]]

\* grid[y][x] = char; ok is FALSE when either index raises IndexError
SetCell(g, x, y, char) ==
    LET r == PyIndex(y, Len(g))
    IN  IF r = 0 THEN [ok |-> FALSE, grid |-> g]
        ELSE LET c == PyIndex(x, Len(g[r]))
             IN  IF c = 0 THEN [ok |-> FALSE, grid |-> g]
                 ELSE [ok |-> TRUE, grid |-> [g EXCEPT ![r][c] = char]]

\* for x, y, char in characters: grid[y][x] = char
RECURSIVE Populate(_, _)
Populate(g, chars) ==
    IF chars = <<>> THEN [ok |-> TRUE, grid |-> g]
    ELSE LET e == Head(chars)
             w == SetCell(g, e[1], e[2], e[3])
         IN  IF w.ok THEN Populate(w.grid, Tail(chars)) ELSE w

ArrangeCharsIntoGridResult(chars) ==
    IF chars = <<>> THEN [ok |-> TRUE, grid |-> <<>>]
    ELSE Populate(BlankGrid(MaxX(chars), MaxY(chars)), chars)

(* ------------------------ print_grid (lines 78-85) ---------------------- *)
PrintGridLines(g) ==
    LET rev == Reverse(g)
    IN  [k \in 1..Len(rev) |-> [row |-> Join(rev[k])]]

(* --------------------------- the pipeline ------------------------------- *)
Init ==
    /\ pc = "fetch"
    /\ response \in Responses
    /\ html = None
    /\ characters = <<>>
    /\ grid = <<>>
    /\ out = <<>>
    /\ exc = "none"
    /\ calls = {}

\* line 95: html = fetch_and_parse_doc(url)
FetchAndParseDoc ==
    /\ pc = "fetch"
    /\ LET res == FetchAndParseDocResult(response)
       IN  /\ html' = res.ret
           /\ out' = out \o res.printed
    /\ calls' = calls \cup {"fetch_and_parse_doc"}
    /\ pc' = "fetched"
    /\ UNCHANGED <<response, characters, grid, exc>>

\* lines 96-97: if not html: return
CheckHtml ==
    /\ pc = "fetched"
    /\ pc' = IF Truthy(html) THEN "parse" ELSE "done"
    /\ UNCHANGED <<response, html, characters, grid, out, exc, calls>>

\* line 99: characters = parse_table_characters(html)
ParseTableCharacters ==
    /\ pc = "parse"
    /\ LET res == ParseTableCharactersResult(html)
       IN  /\ characters' = res.ret
           /\ out' = out \o res.printed
    /\ calls' = calls \cup {"parse_table_characters"}
    /\ pc' = "parsed"
    /\ UNCHANGED <<response, html, grid, exc>>

\* lines 100-102: if not characters: print(...); return
CheckCharactersSilent ==
    /\ pc = "parsed"
    /\ IF characters = <<>>
       THEN /\ out' = out
            /\ pc' = "done"
       ELSE /\ out' = out
            /\ pc' = "arrange"
    /\ UNCHANGED <<response, html, characters, grid, exc, calls>>

CheckCharactersNoReturn ==
    /\ pc = "parsed"
    /\ IF characters = <<>>
       THEN /\ out' = Append(out, NoCharactersMsg)
            /\ pc' = "arrange"
       ELSE /\ out' = out
            /\ pc' = "arrange"
    /\ UNCHANGED <<response, html, characters, grid, exc, calls>>

CheckCharacters ==
    /\ pc = "parsed"
    /\ IF characters = <<>>
       THEN /\ out' = Append(out, NoCharactersMsg)
            /\ pc' = "done"
       ELSE /\ out' = out
            /\ pc' = "arrange"
    /\ UNCHANGED <<response, html, characters, grid, exc, calls>>

\* line 105: grid = arrange_chars_into_grid(characters); an IndexError
\* raised by grid[y][x] = char is caught nowhere and ends the program
ArrangeCharsIntoGrid ==
    /\ pc = "arrange"
    /\ LET res == ArrangeCharsIntoGridResult(characters)
       IN  IF res.ok
           THEN /\ grid' = res.grid
                /\ exc' = exc
                /\ pc' = "print"
           ELSE /\ grid' = grid
                /\ exc' = "IndexError"
                /\ pc' = "done"
    /\ calls' = calls \cup {"arrange_chars_into_grid"}
    /\ UNCHANGED <<response, html, characters, out>>

\* line 106: print_grid(grid)
PrintGrid ==
    /\ pc = "print"
    /\ out' = out \o PrintGridLines(grid)
    /\ calls' = calls \cup {"print_grid"}
    /\ pc' = "done"
    /\ UNCHANGED <<response, html, characters, grid, exc>>

Next ==
    \/ FetchAndParseDoc
    \/ CheckHtml
    \/ ParseTableCharacters
    \/ CheckCharacters
    \/ ArrangeCharsIntoGrid
    \/ PrintGrid

Spec == Init /\ [][Next]_vars

(* ------------- the grid builder and the renderer on their own ----------- *)
Glyphs == {<<"a">>, <<"b", "c">>}
Coords == (0 - 1)..MaxCoord
\* entries of row 0 and of the columns -1 and 0
Entries ==
    {e \in {<<x, y, c>> : x \in Coords, y \in 0..MaxCoord, c \in Glyphs} :
        e[1] <= 0 \/ e[2] = 0}
EntrySeqs == SeqsUpTo(Entries, MaxEntries)

InitGrid ==
    /\ pc = "arrange"
    /\ response = [raised |-> "ConnectionError"]
    /\ html = None
    /\ characters \in EntrySeqs
    /\ grid = <<>>
    /\ out = <<>>
    /\ exc = "none"
    /\ calls = {}

NextGrid ==
    \/ ArrangeCharsIntoGrid
    \/ PrintGrid

SpecGrid == InitGrid /\ [][NextGrid]_vars

(* ============================ properties =============================== *)
Arranged == "arrange_chars_into_grid" \in calls
GridReturned == Arranged /\ exc = "none"
Printed == "print_grid" \in calls
Parsed == "parse_table_characters" \in calls

EntryIdx == 1..Len(characters)
NonNegative == \A i \in EntryIdx : characters[i][1] >= 0 /\ characters[i][2] >= 0
SameCoord(i, j) ==
    characters[i][1] = characters[j][1] /\ characters[i][2] = characters[j][2]

\* grid[y][x] as Python reads it
CellAt(x, y) ==
    LET r == PyIndex(y, Len(grid))
    IN  grid[r][PyIndex(x, Len(grid[r]))]

FetchSucceeded == ~Raised(response) /\ response.status = 200
FetchFailed == Raised(response) \/ response.status >= 400

\* C1: when arrange_chars_into_grid returns a grid for a non-empty entry
\* sequence, the grid has max_y + 1 rows and every row has max_x + 1
\* columns, max_x and max_y being the maxima of x and of y taken
\* independently; for the empty sequence it has zero rows; and a grid is
\* returned whenever no coordinate is negative.
RectangularGrid ==
    Arranged =>
        /\ NonNegative => exc = "none"
        /\ exc = "none" =>
              IF characters = <<>>
              THEN Len(grid) = 0
              ELSE /\ Len(grid) = MaxY(characters) + 1
                   /\ \A r \in 1..Len(grid) :
                          Len(grid[r]) = MaxX(characters) + 1

RectangularGridWitness ==
    /\ pc = "print"
    /\ NonNegative
    /\ Len(characters) >= 2
    /\ Len(grid) = 2
    /\ Len(grid[1]) = 2
    /\ \A i \in EntryIdx :
           ~(characters[i][1] = MaxX(characters) /\ characters[i][2] = MaxY(characters))

\* C2: after arrange_chars_into_grid, every entry (x, y, c) whose coordinate
\* is shared by no later entry has its character at row y, column x, and
\* every cell whose (column, row) is the coordinate of no entry is blank.
PlacementLaw ==
    GridReturned =>
        /\ \A i \in EntryIdx :
               (\A j \in EntryIdx : j > i => ~SameCoord(i, j))
                   => CellAt(characters[i][1], characters[i][2]) = characters[i][3]
        /\ \A r \in 1..Len(grid) : \A c \in 1..Len(grid[r]) :
               (\A i \in EntryIdx :
                    ~(characters[i][1] = c - 1 /\ characters[i][2] = r - 1))
                   => grid[r][c] = Blank

\* C3: when entries share the same (x, y), the glyph at grid[y][x] is the
\* character of the last of them in the sequence.
CollisionLaw ==
    GridReturned =>
        \A i \in EntryIdx : \A j \in EntryIdx :
            (/\ i < j
             /\ SameCoord(i, j)
             /\ \A k \in EntryIdx : k > j => ~SameCoord(j, k))
                => CellAt(characters[j][1], characters[j][2]) = characters[j][3]

\* C4: print_grid prints one line per grid row, in reversed row order: line
\* k is the concatenation of the cells of row (rows - k), so the first line
\* is row max_y and the last is row 0; an empty grid prints nothing.
PrintGridLaw ==
    Printed =>
        /\ Len(out) = Len(grid)
        /\ \A k \in 1..Len(out) :
               out[k] = [row |-> Join(grid[Len(grid) - k + 1])]
        /\ (characters # <<>> /\ NonNegative) =>
               /\ out[1] = [row |-> Join(grid[MaxY(characters) + 1])]
               /\ out[Len(out)] = [row |-> Join(grid[1])]

PrintGridLawWitness ==
    /\ Printed
    /\ Len(out) = 2
    /\ out[1] # out[2]
    /\ \E k \in 1..2 : Len(out[k].row) > Len(grid[1])

\* C5: parse_table_characters emits an entry for a row of the first table
\* exactly when the row is not the first row, has at least 3 cells, its
\* trimmed cells 0 and 2 parse as integers and its trimmed cell 1 is not
\* empty; the entry is (int(cell 0), int(cell 2), trimmed cell 1) and the
\* entries are in row order.
FirstTableRows == Head(html.tables)

Qualifies(cells) ==
    /\ Len(cells) >= 3
    /\ IntOk(cells[1])
    /\ IntOk(cells[3])
    /\ Strip(cells[2]) # <<>>

EmittingRows ==
    {i \in 2..Len(FirstTableRows) : Qualifies(FirstTableRows[i])}

KthEmittingRow(k) ==
    CHOOSE i \in EmittingRows :
        Cardinality({j \in EmittingRows : j <= i}) = k

ParserLaw ==
    (Parsed /\ html.tables # <<>>) =>
        /\ Len(characters) = Cardinality(EmittingRows)
        /\ \A k \in 1..Len(characters) :
               LET cells == FirstTableRows[KthEmittingRow(k)]
               IN  characters[k] =
                       <<IntVal(cells[1]), IntVal(cells[3]), Strip(cells[2])>>

ParserLawWitness ==
    /\ Parsed
    /\ html.tables # <<>>
    /\ Len(FirstTableRows) = 3
    /\ Qualifies(FirstTableRows[1])
    /\ Len(FirstTableRows[2]) >= 3
    /\ ~Qualifies(FirstTableRows[2])
    /\ Len(FirstTableRows[3]) > 3
    /\ characters = <<<<0, 0, <<"b">>>>>>

\* C6 as stated: when the fetch succeeds and the markup (some text, with no
\* table element in it) has been processed, the whole output is the single
\* line "No table found in the document.".
NoTableSingleMessage ==
    (/\ pc = "done"
     /\ FetchSucceeded
     /\ ~response.text.empty
     /\ response.text.tables = <<>>)
        => out = <<NoTableMsg>>

\* C6 as amended: when the fetch succeeds with non-empty markup that has no
\* table, the whole output is "No table found in the document." followed by
\* "No characters found in the document."; with an empty body nothing is
\* printed; in both cases no grid is built or printed.
NoTableOutput ==
    (pc = "done" /\ FetchSucceeded /\ response.text.tables = <<>>) =>
        /\ out = IF response.text.empty
                 THEN <<>>
                 ELSE <<NoTableMsg, NoCharactersMsg>>
        /\ ~Arranged
        /\ ~Printed

NoTableOutputWitness ==
    /\ pc = "done"
    /\ FetchSucceeded
    /\ ~response.text.empty
    /\ response.text.tables = <<>>
    /\ out = <<NoTableMsg, NoCharactersMsg>>

\* C7: when the request fails (network error or non-success status),
\* fetch_and_parse_doc prints one error line carrying the cause and returns
\* None without raising, and the run stops: the parser, the grid builder and
\* the renderer are not called and nothing else is printed.
FetchFailureStops ==
    (FetchFailed /\ pc # "fetch") =>
        /\ pc \in {"fetched", "done"}
        /\ html = None
        /\ exc = "none"
        /\ calls = {"fetch_and_parse_doc"}
        /\ Len(out) = 1
        /\ out[1].msg = ErrorPrefix
        /\ out[1].cause = IF Raised(response)
                          THEN response.raised
                          ELSE StatusCause(response.status)

FetchFailureStopsWitness ==
    /\ pc = "done"
    /\ ~Raised(response)
    /\ response.status = 404
    /\ response.text.tables # <<>>
    /\ Len(out) = 1

\* C8: when a table is present but no entry is parsed, the whole output is
\* "No characters found in the document." and neither the grid builder nor
\* the renderer is called; they are called only for a non-empty entry
\* sequence.
EmptyEntriesHalt ==
    /\ (pc = "done" /\ Parsed /\ html.tables # <<>> /\ characters = <<>>) =>
           /\ out = <<NoCharactersMsg>>
           /\ ~Arranged
           /\ ~Printed
    /\ (pc = "arrange" \/ Arranged \/ Printed) => characters # <<>>

EmptyEntriesHaltWitness ==
    /\ pc = "done"
    /\ Parsed
    /\ html.tables # <<>>
    /\ Len(FirstTableRows) = 3
    /\ \A i \in 2..3 : /\ Len(FirstTableRows[i]) = 3
                       /\ ~IntOk(FirstTableRows[i][1]) \/ ~IntOk(FirstTableRows[i][3])
    /\ out = <<NoCharactersMsg>>

\* C9: every entry the parser produces has coordinates within the bounds of
\* the grid built from the sequence: 0 <= x <= max_x and 0 <= y <= max_y.
CoordinatesWithinBounds ==
    (Parsed /\ characters # <<>>) =>
        \A i \in EntryIdx :
            /\ 0 <= characters[i][1]
            /\ characters[i][1] <= MaxX(characters)
            /\ 0 <= characters[i][2]
            /\ characters[i][2] <= MaxY(characters)

\* C10: no error is fatal: for every fetch outcome and every table content
\* the run terminates normally, never with an uncaught exception.
NoFatalError == exc = "none"

====
